---- MODULE Spec2Model ----
(***************************************************************************)
(* cipher-pol: the per-conversation agent/session manager (ChatAgent), its *)
(* model registry (LLMProvider), the Slack adapter (SlackService) and the  *)
(* web search tool (tavily_search_function).                               *)
(*                                                                         *)
(* Objects are modelled by value plus, where identity matters, a heap id:  *)
(*   LLM handle          the backend object get_llm constructed            *)
(*   ChatMemoryBuffer    an index into `memories` (0 = no object)          *)
(*   ReActAgent          [llm, mem]: the handle and the buffer it was      *)
(*                       constructed over                                  *)
(* A turn of a buffer carries, besides role and content, the number of the *)
(* chat call that put it (history variable `call`, not read by the code).  *)
(***************************************************************************)
EXTENDS Integers, Sequences, FiniteSets, TLC

VARIABLES
    openai_api_key,                  \* LLMProvider.openai_api_key is set
    google_application_credentials,  \* LLMProvider.google_application_credentials is set
    default_model_name,              \* ChatAgent.default_model_name
    user_active_llm,                 \* ChatAgent.user_active_llm
    user_active_model_name,          \* ChatAgent.user_active_model_name
    conversation_memory,             \* ChatAgent.conversation_memory (buffer ids)
    conversation_agent_details,      \* ChatAgent.conversation_agent_details
    memories,                        \* the ChatMemoryBuffer objects, by id
    calls,                           \* history variable: texts of the chat calls, per conversation
    nchats,                          \* history variable: chat calls started
    switched,                        \* history variable: model of the user's last confirmed switch
    last,                            \* history variable: the operation that returned last
    threads,                         \* the transport's worker threads inside ChatAgent
    outbox,                          \* what SlackService did for the last request
    requests_post                    \* the request of the last tavily_search_function call

vars == <<openai_api_key, google_application_credentials, default_model_name,
          user_active_llm, user_active_model_name, conversation_memory,
          conversation_agent_details, memories, calls, nchats, switched, last,
          threads, outbox, requests_post>>

config == <<openai_api_key, google_application_credentials, default_model_name>>
store == <<user_active_llm, user_active_model_name, conversation_memory,
           conversation_agent_details, memories>>

\* ---------------------------------------------------------------- bounds

\* chat calls in a behaviour
MaxChats == 2

\* The ids and texts the transport passes in. ModelNames are the names given to
\* switch_model: the default, a name get_llm resolves only after lower-casing it,
\* and a name of no backend.
UserIds == {"U1", "U2"}
\* the names given to get_llm, in several spellings
ProviderNames == {"gemini", "Gemini", "GEMINI", "openai", "OpenAI", "OPENAI",
                  "nonexistent", ""}
ConversationIds == {"D1_100", "D1_200"}
ModelNames == {"gemini", "OpenAI", "nonexistent"}
Texts == {"hi", "yo"}
Threads == {"T1", "T2"}

\* ---------------------------------------------------------------- values

None == "None"
\* what a call that raised yields in place of a value
Raised == "<raised>"
NoMemory == 0

OpenAI == "OpenAI(gpt-4o)"
Gemini == "Gemini(models/gemini-2.0-flash)"

NoAgent == [llm |-> None, mem |-> NoMemory]
NoDetails == [agent |-> NoAgent, name |-> None]

USER == "user"
ASSISTANT == "assistant"
ChatMessage(role, content, call) == [role |-> role, content |-> content, call |-> call]

SystemsTroubleMsg ==
    "I'm having trouble with my systems for this conversation. Please try again later."
AgentErrorMsg ==
    "I encountered an error processing your message. Please try again."
AgentReply == "<the agent's answer>"
\* the replies of switch_model and get_current_model_info, without the model they name
SwitchedMsg == "Your preferred model is now {model}. This will apply to new conversations and update existing ones on next use."
StayingMsg == "Sorry, I couldn't switch to {model_name}. Staying on {model}."
InfoMsg == "Your preferred model is {model}. This applies to new and existing conversations. Use /model <name> to change."

\* str.lower and str.capitalize on the model names
lower(s) ==
    CASE s \in {"OpenAI", "OPENAI"} -> "openai"
      [] s \in {"Gemini", "GEMINI"} -> "gemini"
      [] s = "General" -> "general"
      [] OTHER -> s

capitalize(s) ==
    CASE s = "gemini" -> "Gemini"
      [] s = "openai" -> "Openai"
      [] s = "OpenAI" -> "Openai"
      [] s = "nonexistent" -> "Nonexistent"
      [] OTHER -> s

\* The program state the handlers read and write, as one record
Store ==
    [llm |-> user_active_llm, name |-> user_active_model_name,
     mem |-> conversation_memory, det |-> conversation_agent_details,
     heap |-> memories]

\* ---------------------------------------------------------------- LLMProvider

\* (mutant) the constructor's exception leaves get_llm
ctor_raised_propagates(provider_lower) ==
    Raised

\* the except clauses of lines 62-64 and 81-84: the exception is logged, None returned
ctor_raised(provider_lower) ==
    None

\* get_llm: `ctor_ok` is whether the backend's constructor returns (TRUE) or raises
get_llm(model_provider, ctor_ok) ==
    LET provider_lower == lower(model_provider)
    IN  IF provider_lower = "openai"
        THEN IF ~openai_api_key THEN None
             ELSE IF ctor_ok THEN OpenAI ELSE ctor_raised(provider_lower)
        ELSE IF provider_lower = "gemini"
        THEN IF ~google_application_credentials THEN None
             ELSE IF ctor_ok THEN Gemini ELSE ctor_raised(provider_lower)
        ELSE None

\* ---------------------------------------------------------------- ChatAgent

\* dict.get(user_id, default) on user_active_model_name
preferred_name(st, user_id) ==
    IF st.name[user_id] # None THEN st.name[user_id] ELSE default_model_name

\* (mutant) one cache entry shared by all users
cache_llm_all_users(st, user_id, llm, name) ==
    [st EXCEPT !.llm = [v \in DOMAIN st.llm |-> llm],
               !.name = [v \in DOMAIN st.name |-> name]]

\* (mutant) the handle is cached, the name left as it was
cache_llm_keeps_name(st, user_id, llm, name) ==
    [st EXCEPT !.llm[user_id] = llm]

\* lines 56-57: cache the handle and the name of the model actually loaded
cache_llm(st, user_id, llm, name) ==
    [st EXCEPT !.llm[user_id] = llm, !.name[user_id] = name]

\* (mutant) every call loads, as if the name stored for the user never matched
needs_load_every_call(st, user_id, preferred_model_name) ==
    TRUE

\* the reload test of line 39
needs_load(st, user_id, preferred_model_name) ==
    st.llm[user_id] = None \/ st.name[user_id] # preferred_model_name

\* (mutant) the failure names the model the user wanted
both_failed_names_desired(st, preferred_model_name) ==
    [st |-> st, llm |-> None, name |-> preferred_model_name]

\* lines 48-51: the preferred model and the default both failed to load
both_failed(st, preferred_model_name) ==
    [st |-> st, llm |-> None, name |-> default_model_name]

\* (mutant) the failure is remembered: the name that failed is stored for the users
default_failed_remembered(st, preferred_model_name) ==
    [st |-> [st EXCEPT !.name = [v \in DOMAIN st.name |-> preferred_model_name]],
     llm |-> None, name |-> preferred_model_name]

\* lines 52-53: the preferred model is the default and it failed to load
default_failed(st, preferred_model_name) ==
    [st |-> st, llm |-> None, name |-> preferred_model_name]

\* _get_llm_for_user: ok1, ok2 are the outcomes of the constructors behind its
\* first and second get_llm call
_get_llm_for_user(st, user_id, ok1, ok2) ==
    LET preferred_model_name == preferred_name(st, user_id)
        llm == st.llm[user_id]
    IN  IF needs_load(st, user_id, preferred_model_name)
        THEN LET llm1 == get_llm(preferred_model_name, ok1)
             IN  IF llm1 = None
                 THEN IF preferred_model_name # default_model_name
                      THEN LET llm2 == get_llm(default_model_name, ok2)
                           IN  IF llm2 = None
                               THEN both_failed(st, preferred_model_name)
                               ELSE [st |-> cache_llm(st, user_id, llm2, default_model_name),
                                     llm |-> llm2, name |-> default_model_name]
                      ELSE default_failed(st, preferred_model_name)
                 ELSE [st |-> cache_llm(st, user_id, llm1, preferred_model_name),
                       llm |-> llm1, name |-> preferred_model_name]
        ELSE [st |-> st, llm |-> llm, name |-> preferred_model_name]

\* lines 29-32: a new, empty buffer becomes the conversation's entry
create_memory(st, conversation_id) ==
    LET id == Len(st.heap) + 1
    IN  [st |-> [st EXCEPT !.mem[conversation_id] = id, !.heap = Append(@, <<>>)],
         memory |-> id]

\* (mutant) a new buffer on every call, as if the membership test were missing
_get_or_create_memory_always_new(st, conversation_id) ==
    create_memory(st, conversation_id)

\* _get_or_create_memory
_get_or_create_memory(st, conversation_id) ==
    IF st.mem[conversation_id] = NoMemory
    THEN create_memory(st, conversation_id)
    ELSE [st |-> st, memory |-> st.mem[conversation_id]]

\* ChatMemoryBuffer.put on the buffer `memory`
put(st, memory, msg) ==
    [st EXCEPT !.heap[memory] = Append(@, msg)]

\* ReActAgent.from_llm(llm, tools, memory)
from_llm(llm, memory) == [llm |-> llm, mem |-> memory]

\* (mutant) the bindings are discarded when the construction fails
create_except_drops_bindings(st) ==
    [st |-> [st EXCEPT !.det = [c \in DOMAIN st.det |-> NoDetails]],
     agent |-> NoAgent, raised |-> FALSE, path |-> "agent_construction_failed"]

\* the except clause of lines 87-89: the construction error is swallowed
create_except(st) ==
    [st |-> st, agent |-> NoAgent, raised |-> FALSE, path |-> "agent_construction_failed"]

\* (mutant) the cached agent serves whatever name it was created with
usable_agent_any_name(current_agent_details, user_preferred_model_name) ==
    current_agent_details.agent

\* lines 70-74: the cached agent serves only under the name it was created with
usable_agent(current_agent_details, user_preferred_model_name) ==
    IF current_agent_details # NoDetails
       /\ current_agent_details.name = user_preferred_model_name
    THEN current_agent_details.agent
    ELSE NoAgent

\* (mutant) the new binding is not stored
store_details_skipped(st, conversation_id, agent_instance, user_preferred_model_name) ==
    st

\* (mutant) the new binding is stored for every conversation
store_details_all_conversations(st, conversation_id, agent_instance, user_preferred_model_name) ==
    [st EXCEPT !.det = [c \in DOMAIN st.det |->
                           [agent |-> agent_instance, name |-> user_preferred_model_name]]]

\* line 86: the new binding replaces the conversation's entry
store_details(st, conversation_id, agent_instance, user_preferred_model_name) ==
    [st EXCEPT !.det[conversation_id] =
                   [agent |-> agent_instance, name |-> user_preferred_model_name]]

\* _get_or_create_agent: ctor_ok is whether ReActAgent.from_llm returns or raises.
\* `path` tells which way the call went (not a value of the program).
_get_or_create_agent(st, conversation_id, user_id, ok1, ok2, ctor_ok) ==
    LET r == _get_llm_for_user(st, user_id, ok1, ok2)
        current_agent_details == r.st.det[conversation_id]
        agent_instance == usable_agent(current_agent_details, r.name)
    IN  IF r.llm = None
        THEN [st |-> r.st, agent |-> NoAgent, raised |-> FALSE, path |-> "llm_unavailable"]
        ELSE IF agent_instance = NoAgent
        THEN LET m == _get_or_create_memory(r.st, conversation_id)
             IN  IF ctor_ok
                 THEN LET a == from_llm(r.llm, m.memory)
                      IN  [st |-> store_details(m.st, conversation_id, a, r.name),
                           agent |-> a, raised |-> FALSE,
                           path |-> IF current_agent_details = NoDetails
                                    THEN "created" ELSE "rebuilt"]
                 ELSE create_except(m.st)
        ELSE [st |-> r.st, agent |-> agent_instance, raised |-> FALSE, path |-> "reused"]

\* ReActAgent.chat(message) on the buffer the agent was constructed over.
\* `exec` is what the reasoning loop does: "reply" records the user turn and the
\* answer; "raise_early" raises before the user turn is recorded; "raise_late"
\* raises after it.
Execs == {"reply", "raise_early", "raise_late"}

agent_chat(st, agent, message, exec, call) ==
    LET user_turn == ChatMessage(USER, message, call)
        answer == ChatMessage(ASSISTANT, AgentReply, call)
    IN  CASE exec = "reply" ->
               [st |-> put(put(st, agent.mem, user_turn), agent.mem, answer),
                response |-> AgentReply, raised |-> FALSE]
          [] exec = "raise_late" ->
               [st |-> put(st, agent.mem, user_turn), response |-> None, raised |-> TRUE]
          [] OTHER ->
               [st |-> st, response |-> None, raised |-> TRUE]

\* _log_chat_history: its only effect on the state is its _get_or_create_memory call
_log_chat_history(st, conversation_id) ==
    _get_or_create_memory(st, conversation_id).st

\* (mutant) only the apology is put
chat_no_agent_drops_user(st, conversation_id, message_text, call, path) ==
    LET m == _get_or_create_memory(st, conversation_id)
        st1 == put(m.st, m.memory, ChatMessage(ASSISTANT, SystemsTroubleMsg, call))
    IN  [st |-> _log_chat_history(st1, conversation_id), reply |-> SystemsTroubleMsg,
         raised |-> FALSE, agent |-> NoAgent, path |-> path, binding |-> None]

\* lines 141-149: no agent, the user's message and the apology are put by hand
chat_no_agent(st, conversation_id, message_text, call, path) ==
    LET m == _get_or_create_memory(st, conversation_id)
        st1 == put(m.st, m.memory, ChatMessage(USER, message_text, call))
        st2 == put(st1, m.memory, ChatMessage(ASSISTANT, SystemsTroubleMsg, call))
    IN  [st |-> _log_chat_history(st2, conversation_id), reply |-> SystemsTroubleMsg,
         raised |-> FALSE, agent |-> NoAgent, path |-> path, binding |-> None]

\* (mutant) the agent's exception is not caught
chat_except_reraise(st, conversation_id, agent) ==
    [st |-> st, reply |-> None, raised |-> TRUE, agent |-> agent,
     path |-> "agent_raised", binding |-> None]

\* the except clause of lines 158-160
chat_except(st, conversation_id, agent) ==
    [st |-> _log_chat_history(st, conversation_id), reply |-> AgentErrorMsg,
     raised |-> FALSE, agent |-> agent, path |-> "agent_raised", binding |-> None]

\* chat
chat(st, conversation_id, user_id, message_text, ok1, ok2, ctor_ok, exec, call) ==
    LET g == _get_or_create_agent(st, conversation_id, user_id, ok1, ok2, ctor_ok)
    IN  IF g.raised
        THEN [st |-> g.st, reply |-> None, raised |-> TRUE, agent |-> NoAgent,
              path |-> g.path, binding |-> None]
        ELSE IF g.agent = NoAgent
        THEN chat_no_agent(g.st, conversation_id, message_text, call, g.path)
        ELSE LET a == agent_chat(g.st, g.agent, message_text, exec, call)
             IN  IF a.raised
                 THEN [chat_except(a.st, conversation_id, g.agent)
                          EXCEPT !.binding = g.path]
                 ELSE [st |-> _log_chat_history(a.st, conversation_id),
                       reply |-> a.response, raised |-> FALSE, agent |-> g.agent,
                       path |-> "agent_replied", binding |-> g.path]

\* (mutant) a failed switch also drops the agents bound to the conversations
revert_drops_bindings(st, user_id, original_model_name) ==
    [st EXCEPT !.name[user_id] = original_model_name,
               !.det = [c \in DOMAIN st.det |-> NoDetails]]

\* (mutant) a failed switch from the default removes the name entry only
revert_keeps_handle(st, user_id, original_model_name) ==
    IF original_model_name # None
    THEN [st EXCEPT !.name[user_id] = original_model_name]
    ELSE [st EXCEPT !.name[user_id] = None]

\* lines 109-114: revert a failed switch
revert(st, user_id, original_model_name) ==
    IF original_model_name # None
    THEN [st EXCEPT !.name[user_id] = original_model_name]
    ELSE [st EXCEPT !.name[user_id] = None, !.llm[user_id] = None]

\* switch_model: ok1..ok4 are the outcomes of the constructors behind the get_llm
\* calls of its two _get_llm_for_user calls
switch_model(st, user_id, model_name, ok1, ok2, ok3, ok4) ==
    LET r1 == _get_llm_for_user(st, user_id, ok1, ok2)
        original_model_name == r1.st.name[user_id]
        st1 == [r1.st EXCEPT !.name[user_id] = model_name]
        r2 == _get_llm_for_user(st1, user_id, ok3, ok4)
    IN  IF r2.llm # None /\ r2.name = model_name
        THEN [st |-> r2.st, reply |-> SwitchedMsg,
              model |-> capitalize(model_name)]
        ELSE LET st2 == revert(r2.st, user_id, original_model_name)
             IN  [st |-> st2, reply |-> StayingMsg,
                  model |-> capitalize(preferred_name(st2, user_id))]

\* (mutant) the reply names the default, whatever the user's entry
get_current_model_info_default_only(st, user_id) ==
    capitalize(default_model_name)

\* get_current_model_info: the model its reply names
get_current_model_info(st, user_id) ==
    capitalize(preferred_name(st, user_id))

\* ---------------------------------------------------------------- SlackService

\* self.bot_user_id and self.bot_id, from auth_test
BotUserId == "UBOT"
BotId == "BBOT"

\* A socket-mode request: its type and the fields of its payload the adapter reads
\* (for a slash command: command, user_id, channel_id and text)
NoRequest ==
    [type |-> None, event_type |-> None, user |-> None, text |-> "",
     channel |-> None, channel_type |-> None, ts |-> None, thread_ts |-> None,
     bot_id |-> None, subtype |-> None, command |-> None]

\* what process_slack_request did for a request: acknowledgements sent, calls made
\* to the ChatAgent, Web API calls made
NoEffects(req) ==
    [req |-> req, acks |-> 0, agent_calls |-> <<>>, posts |-> <<>>]

\* str.strip on the texts of the requests
strip(s) ==
    CASE s = " hi" -> "hi"
      [] s = " " -> ""
      [] OTHER -> s

\* text.replace(bot_mention_string, "")
remove_mention(s) ==
    CASE s = "<@UBOT> hi" -> " hi"
      [] s = "<@UBOT>" -> ""
      [] OTHER -> s

\* the f-string of line 76
conversation_id_of(channel_id, conversation_thread_ts) ==
    CASE channel_id = "D1" /\ conversation_thread_ts = "100" -> "D1_100"
      [] channel_id = "D1" /\ conversation_thread_ts = "200" -> "D1_200"
      [] OTHER -> None

\* ---------------------------------------------------------------- web search tool

\* a key the payload does not have
Absent == "<absent>"
\* max_results = None, and the payload without a max_results key
NoMaxResults == -1

\* no request was sent
NoPost ==
    [sent |-> FALSE, query |-> None, include_answer |-> FALSE,
     search_depth |-> Absent, max_results |-> NoMaxResults, topic |-> Absent]

\* What the request to the search service does: a 2xx response with an answer
\* and/or results or with neither, a response with another status, an error of
\* the transport, any other exception
HttpOutcomes ==
    {"answer_and_results", "answer_only", "results_only", "empty",
     "status_error", "transport_error", "unexpected_error"}

\* (mutant) the topic falls back to general and is always sent
topic_entry_default_general(topic) ==
    IF topic # None THEN topic ELSE "general"

\* lines 41-42: the payload's topic key
topic_entry(topic) ==
    IF topic # None /\ topic # "" /\ lower(topic) # "general" THEN topic ELSE Absent

\* (mutant) an exception that is neither an HTTPError nor a RequestException
\* leaves the function
unexpected_error_propagates(http) ==
    <<Raised>>

\* lines 97-99: the last except clause
unexpected_error(http) ==
    <<"Error:", " An unexpected error occurred while performing the search.">>

\* lines 26-42: the payload
search_payload(query, topic, search_depth, max_results) ==
    [sent |-> TRUE, query |-> query, include_answer |-> TRUE,
     search_depth |-> IF search_depth # None /\ search_depth # ""
                      THEN search_depth ELSE Absent,
     max_results |-> max_results,
     topic |-> topic_entry(topic)]

\* tavily_search_function: the request it sends and the string it returns, as the
\* sequence of its parts. tavily_api_key is whether TAVILY_API_KEY is set.
tavily_search_function(query, topic, search_depth, max_results, tavily_api_key, http) ==
    LET payload == search_payload(query, topic, search_depth, max_results)
        answer == <<"Answer: ", "<answer>">>
        sources == <<"\nSources:\n", "<title: url lines>">>
    IN  IF ~tavily_api_key
        THEN [payload |-> NoPost,
              result |-> <<"Error:", " TAVILY_API_KEY not found in environment variables.">>]
        ELSE [payload |-> payload,
              result |->
                CASE http = "answer_and_results" -> answer \o <<"\n\n">> \o sources
                  [] http = "answer_only" -> answer
                  [] http = "results_only" -> sources
                  [] http = "empty" ->
                       <<"No specific answer or results found from Tavily search.">>
                  [] http = "status_error" ->
                       <<"Error:", " The search request to Tavily failed with status ",
                         "<status>", ".">>
                  [] http = "transport_error" ->
                       <<"Error:", " The search request to Tavily failed: ", "<e>">>
                  [] OTHER -> unexpected_error(http)]

\* ---------------------------------------------------------------- state machine

\* A worker thread outside ChatAgent; its fields are the locals of the call it runs.
\* `leaked` is a history field: another call read the name this thread's
\* switch_model wrote tentatively.
Idle ==
    [pc |-> "idle", conv |-> None, user |-> None, text |-> None, call |-> 0,
     llm |-> None, name |-> None, agent |-> NoAgent, memory |-> NoMemory,
     need_create |-> FALSE, ret |-> None, path |-> None, binding |-> None,
     reply |-> None, model_name |-> None, original_model_name |-> None,
     leaked |-> FALSE]

NoOp ==
    [op |-> "init", conv |-> None, user |-> None, arg |-> None, reply |-> None,
     model |-> None, raised |-> FALSE, agent |-> NoAgent, path |-> None,
     binding |-> None, call |-> 0]

\* A ChatAgent just constructed, over an LLMProvider that found each credential in
\* the environment or did not; DEFAULT_MODEL is unset
Init ==
    /\ openai_api_key \in BOOLEAN
    /\ google_application_credentials \in BOOLEAN
    /\ default_model_name = "gemini"
    /\ user_active_llm = [u \in UserIds |-> None]
    /\ user_active_model_name = [u \in UserIds |-> None]
    /\ conversation_memory = [c \in ConversationIds |-> NoMemory]
    /\ conversation_agent_details = [c \in ConversationIds |-> NoDetails]
    /\ memories = <<>>
    /\ calls = [c \in ConversationIds |-> <<>>]
    /\ nchats = 0
    /\ switched = [u \in UserIds |-> None]
    /\ last = NoOp
    /\ threads = [t \in Threads |-> Idle]
    /\ outbox = NoEffects(NoRequest)
    /\ requests_post = NoPost

SetStore(st) ==
    /\ user_active_llm' = st.llm
    /\ user_active_model_name' = st.name
    /\ conversation_memory' = st.mem
    /\ conversation_agent_details' = st.det
    /\ memories' = st.heap

\* The outcomes of one call, over what the backends and the agent may do in it
chat_outcomes(st, c, u, text, call) ==
    { chat(st, c, u, text, ok1, ok2, ctor_ok, exec, call) :
        ok1 \in BOOLEAN, ok2 \in BOOLEAN, ctor_ok \in BOOLEAN, exec \in Execs }

switch_model_outcomes(st, u, m) ==
    { switch_model(st, u, m, ok1, ok2, ok3, ok4) :
        ok1 \in BOOLEAN, ok2 \in BOOLEAN, ok3 \in BOOLEAN, ok4 \in BOOLEAN }

\* One whole chat(conversation_id, user_id, message_text) call
Chat(c, u, text) ==
    /\ nchats < MaxChats
    /\ \E r \in chat_outcomes(Store, c, u, text, nchats + 1) :
         /\ SetStore(r.st)
         /\ last' = [op |-> "chat", conv |-> c, user |-> u, arg |-> text,
                     reply |-> r.reply, model |-> None, raised |-> r.raised,
                     agent |-> r.agent, path |-> r.path, binding |-> r.binding,
                     call |-> nchats + 1]
    /\ nchats' = nchats + 1
    /\ calls' = [calls EXCEPT ![c] = Append(@, text)]
    /\ UNCHANGED <<config, outbox, requests_post, switched, threads>>

\* One whole switch_model(user_id, model_name) call
SwitchModel(u, m) ==
    /\ \E r \in switch_model_outcomes(Store, u, m) :
         /\ SetStore(r.st)
         /\ last' = [op |-> "switch_model", conv |-> None, user |-> u, arg |-> m,
                     reply |-> r.reply, model |-> r.model, raised |-> FALSE,
                     agent |-> NoAgent, path |-> None, binding |-> None, call |-> 0]
         /\ switched' = IF r.reply = SwitchedMsg
                        THEN [switched EXCEPT ![u] = m]
                        ELSE switched
    /\ UNCHANGED <<config, outbox, requests_post, calls, nchats, threads>>

\* One whole get_current_model_info(user_id) call
GetCurrentModelInfo(u) ==
    /\ last' = [op |-> "get_current_model_info", conv |-> None, user |-> u,
                arg |-> None, reply |-> InfoMsg,
                model |-> get_current_model_info(Store, u), raised |-> FALSE,
                agent |-> NoAgent, path |-> None, binding |-> None, call |-> 0]
    /\ UNCHANGED <<config, outbox, requests_post, store, calls, nchats, switched, threads>>

\* The operations, over the users, conversations and texts the transport delivers
NextOver(users, convs, texts) ==
    \/ \E c \in convs, u \in users, text \in texts : Chat(c, u, text)
    \/ \E u \in users, m \in ModelNames : SwitchModel(u, m)
    \/ \E u \in users : GetCurrentModelInfo(u)

\* One user in two conversations
Next ==
    NextOver({"U1"}, ConversationIds, {"hi"})

Spec == Init /\ [][Next]_vars

\* Two users posting in one conversation
NextUsers ==
    NextOver(UserIds, {"D1_100"}, {"hi"})

SpecUsers == Init /\ [][NextUsers]_vars

\* One user sending different texts in one conversation
NextTexts ==
    NextOver({"U1"}, {"D1_100"}, Texts)

SpecTexts == Init /\ [][NextTexts]_vars

\* ---------------------------------------------------------------- concurrent calls
\* The socket-mode client runs process_slack_request on worker threads, so chat
\* calls overlap; a thread may be preempted between any two of the steps below.

Goto(t, pc, fields) ==
    threads' = [threads EXCEPT ![t] = [f \in DOMAIN Idle |->
                   IF f = "pc" THEN pc
                   ELSE IF f \in DOMAIN fields THEN fields[f] ELSE threads[t][f]]]

\* chat is entered (line 138)
ChatEnter(t, c, u, text) ==
    /\ threads[t].pc = "idle"
    /\ nchats < MaxChats
    /\ threads' = [threads EXCEPT ![t] =
                      [Idle EXCEPT !.pc = "get_agent", !.conv = c, !.user = u,
                                   !.text = text, !.call = nchats + 1]]
    /\ nchats' = nchats + 1
    /\ calls' = [calls EXCEPT ![c] = Append(@, text)]
    /\ UNCHANGED <<config, outbox, requests_post, store, switched, last>>

\* _get_or_create_agent, lines 62-75: the user's model and the cached binding
ResolveAgent(t) ==
    /\ threads[t].pc = "get_agent"
    /\ \E r \in { _get_llm_for_user(Store, threads[t].user, ok1, ok2) :
                      ok1 \in BOOLEAN, ok2 \in BOOLEAN } :
         LET current_agent_details == r.st.det[threads[t].conv]
             agent_instance == usable_agent(current_agent_details, r.name)
         IN  /\ SetStore(r.st)
             /\ IF r.llm = None
                THEN Goto(t, "mem_check", [ret |-> "put_user", path |-> "llm_unavailable"])
                ELSE IF agent_instance = NoAgent
                THEN Goto(t, "mem_check",
                          [ret |-> "construct", llm |-> r.llm, name |-> r.name,
                           binding |-> IF current_agent_details = NoDetails
                                       THEN "created" ELSE "rebuilt"])
                ELSE Goto(t, "agent_put_user",
                          [agent |-> agent_instance, binding |-> "reused"])
    /\ UNCHANGED <<config, outbox, requests_post, calls, nchats, switched, last>>

\* _get_or_create_memory, line 27: the membership test
MemCheck(t) ==
    /\ threads[t].pc = "mem_check"
    /\ Goto(t, "mem_create",
            [need_create |-> conversation_memory[threads[t].conv] = NoMemory])
    /\ UNCHANGED <<config, outbox, requests_post, store, calls, nchats, switched, last>>

\* _get_or_create_memory, lines 28-32: create if the test said so, and return the entry
MemCreate(t) ==
    /\ threads[t].pc = "mem_create"
    /\ LET m == IF threads[t].need_create
                THEN create_memory(Store, threads[t].conv)
                ELSE [st |-> Store, memory |-> conversation_memory[threads[t].conv]]
       IN  /\ SetStore(m.st)
           /\ Goto(t, threads[t].ret, [memory |-> m.memory])
    /\ UNCHANGED <<config, outbox, requests_post, calls, nchats, switched, last>>

\* _get_or_create_agent, lines 78-89: construct the agent and store the binding
Construct(t) ==
    /\ threads[t].pc = "construct"
    /\ \/ LET a == from_llm(threads[t].llm, threads[t].memory)
          IN  /\ SetStore(store_details(Store, threads[t].conv, a, threads[t].name))
              /\ Goto(t, "agent_put_user", [agent |-> a])
       \/ /\ Goto(t, "mem_check",
                  [ret |-> "put_user", path |-> "agent_construction_failed",
                   binding |-> None])
          /\ UNCHANGED store
    /\ UNCHANGED <<config, outbox, requests_post, calls, nchats, switched, last>>

\* chat, line 146: the user's message is put by hand
PutUser(t) ==
    /\ threads[t].pc = "put_user"
    /\ SetStore(put(Store, threads[t].memory,
                    ChatMessage(USER, threads[t].text, threads[t].call)))
    /\ Goto(t, "put_apology", << >>)
    /\ UNCHANGED <<config, outbox, requests_post, calls, nchats, switched, last>>

\* chat, line 147: then the apology
PutApology(t) ==
    /\ threads[t].pc = "put_apology"
    /\ SetStore(put(Store, threads[t].memory,
                    ChatMessage(ASSISTANT, SystemsTroubleMsg, threads[t].call)))
    /\ Goto(t, "return", [reply |-> SystemsTroubleMsg])
    /\ UNCHANGED <<config, outbox, requests_post, calls, nchats, switched, last>>

\* agent.chat (line 156), first part: the agent records the user's turn, or raises
AgentPutUser(t) ==
    /\ threads[t].pc = "agent_put_user"
    /\ \/ /\ SetStore(put(Store, threads[t].agent.mem,
                          ChatMessage(USER, threads[t].text, threads[t].call)))
          /\ Goto(t, "agent_answer", << >>)
       \/ /\ Goto(t, "return", [reply |-> AgentErrorMsg, path |-> "agent_raised"])
          /\ UNCHANGED store
    /\ UNCHANGED <<config, outbox, requests_post, calls, nchats, switched, last>>

\* agent.chat (line 156), second part: the reasoning loop ends, the agent records
\* its answer, or raises
AgentAnswer(t) ==
    /\ threads[t].pc = "agent_answer"
    /\ \/ /\ SetStore(put(Store, threads[t].agent.mem,
                          ChatMessage(ASSISTANT, AgentReply, threads[t].call)))
          /\ Goto(t, "return", [reply |-> AgentReply, path |-> "agent_replied"])
       \/ /\ Goto(t, "return", [reply |-> AgentErrorMsg, path |-> "agent_raised"])
          /\ UNCHANGED store
    /\ UNCHANGED <<config, outbox, requests_post, calls, nchats, switched, last>>

\* chat, lines 148-149 and 167-169: log the history and return
ChatReturn(t) ==
    /\ threads[t].pc = "return"
    /\ SetStore(_log_chat_history(Store, threads[t].conv))
    /\ last' = [op |-> "chat", conv |-> threads[t].conv, user |-> threads[t].user,
                arg |-> threads[t].text, reply |-> threads[t].reply, model |-> None,
                raised |-> FALSE, agent |-> threads[t].agent,
                path |-> threads[t].path, binding |-> threads[t].binding,
                call |-> threads[t].call]
    /\ threads' = [threads EXCEPT ![t] = Idle]
    /\ UNCHANGED <<config, outbox, requests_post, calls, nchats, switched>>

NextConc ==
    \/ \E t \in Threads, text \in Texts : ChatEnter(t, "D1_100", "U1", text)
    \/ \E t \in Threads :
          \/ ResolveAgent(t)
          \/ MemCheck(t)
          \/ MemCreate(t)
          \/ Construct(t)
          \/ PutUser(t)
          \/ PutApology(t)
          \/ AgentPutUser(t)
          \/ AgentAnswer(t)
          \/ ChatReturn(t)

SpecConc == Init /\ [][NextConc]_vars

\* ---------------------------------------------------------------- concurrent switches
\* switch_model running on worker threads, preempted between its statements, next
\* to get_current_model_info and chat calls of the same user.

\* Thread t is between its tentative write (line 100) and its return, the name it
\* wrote is still u's entry, and it is not the model u was on before
Tentative(t, u) ==
    /\ threads[t].pc \in {"switch_second", "switch_finish"}
    /\ threads[t].user = u
    /\ user_active_model_name[u] = threads[t].model_name
    /\ threads[t].model_name #
          (IF threads[t].original_model_name = None
           THEN default_model_name ELSE threads[t].original_model_name)

\* the threads, after a call has read u's entry of user_active_model_name
Observed(th, u) ==
    [x \in Threads |-> IF Tentative(x, u) THEN [th[x] EXCEPT !.leaked = TRUE] ELSE th[x]]

\* switch_model is entered (line 94)
SwitchEnter(t, u, m) ==
    /\ threads[t].pc = "idle"
    /\ threads' = [threads EXCEPT ![t] =
                      [Idle EXCEPT !.pc = "switch_first", !.user = u, !.model_name = m]]
    /\ UNCHANGED <<config, outbox, requests_post, store, calls, nchats, switched, last>>

\* switch_model, line 96: the first _get_llm_for_user call
SwitchFirst(t) ==
    /\ threads[t].pc = "switch_first"
    /\ \E r \in { _get_llm_for_user(Store, threads[t].user, ok1, ok2) :
                      ok1 \in BOOLEAN, ok2 \in BOOLEAN } :
         SetStore(r.st)
    /\ threads' = [Observed(threads, threads[t].user) EXCEPT ![t].pc = "switch_tentative"]
    /\ UNCHANGED <<config, outbox, requests_post, calls, nchats, switched, last>>

\* switch_model, lines 99-100: remember the entry, write the new name over it
SwitchTentative(t) ==
    /\ threads[t].pc = "switch_tentative"
    /\ user_active_model_name' =
          [user_active_model_name EXCEPT ![threads[t].user] = threads[t].model_name]
    /\ threads' = [Observed(threads, threads[t].user) EXCEPT
                      ![t].pc = "switch_second",
                      ![t].original_model_name = user_active_model_name[threads[t].user]]
    /\ UNCHANGED <<config, outbox, requests_post, user_active_llm, conversation_memory,
                   conversation_agent_details, memories, calls, nchats, switched, last>>

\* switch_model, line 102: the second _get_llm_for_user call
SwitchSecond(t) ==
    /\ threads[t].pc = "switch_second"
    /\ \E r \in { _get_llm_for_user(Store, threads[t].user, ok3, ok4) :
                      ok3 \in BOOLEAN, ok4 \in BOOLEAN } :
         /\ SetStore(r.st)
         /\ Goto(t, "switch_finish", [llm |-> r.llm, name |-> r.name])
    /\ UNCHANGED <<config, outbox, requests_post, calls, nchats, switched, last>>

\* the test of line 104 on the thread's locals
SwitchConfirmed(t) ==
    threads[t].llm # None /\ threads[t].name = threads[t].model_name

\* switch_model, lines 104-118: confirm, or revert, and return
SwitchFinish(t) ==
    /\ threads[t].pc = "switch_finish"
    /\ LET u == threads[t].user
           m == threads[t].model_name
           st2 == IF SwitchConfirmed(t) THEN Store
                  ELSE revert(Store, u, threads[t].original_model_name)
       IN  /\ SetStore(st2)
           /\ last' = [op |-> "switch_model", conv |-> None, user |-> u, arg |-> m,
                       reply |-> IF SwitchConfirmed(t) THEN SwitchedMsg ELSE StayingMsg,
                       model |-> IF SwitchConfirmed(t) THEN capitalize(m)
                                 ELSE capitalize(preferred_name(st2, u)),
                       raised |-> FALSE, agent |-> NoAgent, path |-> None,
                       binding |-> None, call |-> 0]
           /\ switched' = IF SwitchConfirmed(t)
                          THEN [switched EXCEPT ![u] = m] ELSE switched
    /\ threads' = [threads EXCEPT ![t] = Idle]
    /\ UNCHANGED <<config, outbox, requests_post, calls, nchats>>

\* get_current_model_info(u) on another thread: one read of the entry (line 172)
InfoDuringSwitch(u) ==
    /\ last' = [op |-> "get_current_model_info", conv |-> None, user |-> u,
                arg |-> None, reply |-> InfoMsg,
                model |-> get_current_model_info(Store, u), raised |-> FALSE,
                agent |-> NoAgent, path |-> None, binding |-> None, call |-> 0]
    /\ threads' = Observed(threads, u)
    /\ UNCHANGED <<config, outbox, requests_post, store, calls, nchats, switched>>

\* chat(c, u, text) on another thread, run without preemption
ChatDuringSwitch(c, u, text) ==
    /\ nchats < MaxChats
    /\ \E r \in chat_outcomes(Store, c, u, text, nchats + 1) :
         /\ SetStore(r.st)
         /\ last' = [op |-> "chat", conv |-> c, user |-> u, arg |-> text,
                     reply |-> r.reply, model |-> None, raised |-> r.raised,
                     agent |-> r.agent, path |-> r.path, binding |-> r.binding,
                     call |-> nchats + 1]
    /\ nchats' = nchats + 1
    /\ calls' = [calls EXCEPT ![c] = Append(@, text)]
    /\ threads' = Observed(threads, u)
    /\ UNCHANGED <<config, outbox, requests_post, switched>>

\* switch_model(u, m) on another thread, run without preemption
SwitchDuringSwitch(u, m) ==
    /\ \E r \in switch_model_outcomes(Store, u, m) :
         /\ SetStore(r.st)
         /\ last' = [op |-> "switch_model", conv |-> None, user |-> u, arg |-> m,
                     reply |-> r.reply, model |-> r.model, raised |-> FALSE,
                     agent |-> NoAgent, path |-> None, binding |-> None, call |-> 0]
         /\ switched' = IF r.reply = SwitchedMsg
                        THEN [switched EXCEPT ![u] = m]
                        ELSE switched
    /\ threads' = Observed(threads, u)
    /\ UNCHANGED <<config, outbox, requests_post, calls, nchats>>

\* One thread inside switch_model, preempted between its statements by whole
\* calls of the same user on the other threads
NextSwitchConc ==
    \/ \E m \in ModelNames : SwitchEnter("T1", "U1", m)
    \/ SwitchFirst("T1")
    \/ SwitchTentative("T1")
    \/ SwitchSecond("T1")
    \/ SwitchFinish("T1")
    \/ InfoDuringSwitch("U1")
    \/ ChatDuringSwitch("D1_100", "U1", "hi")
    \/ \E m \in ModelNames : SwitchDuringSwitch("U1", m)

SpecSwitchConc == Init /\ [][NextSwitchConc]_vars

\* ---------------------------------------------------------------- switch_model, step by step
\* One thread, no other call while it is inside switch_model: the sequential
\* behaviour of the program with the intermediate states of switch_model visible.

NextSwitchSteps ==
    \/ \E m \in ModelNames : SwitchEnter("T1", "U1", m)
    \/ SwitchFirst("T1")
    \/ SwitchTentative("T1")
    \/ SwitchSecond("T1")
    \/ SwitchFinish("T1")
    \/ threads["T1"].pc = "idle" /\ Chat("D1_100", "U1", "hi")
    \/ threads["T1"].pc = "idle" /\ GetCurrentModelInfo("U1")

SpecSwitchSteps == Init /\ [][NextSwitchSteps]_vars

\* ---------------------------------------------------------------- LLMProvider calls
\* get_llm called on the provider the ChatAgent uses, between the user's
\* switch_model and get_current_model_info calls.

\* One get_llm(model_provider) call
GetLlm(model_provider, ctor_ok) ==
    /\ LET r == get_llm(model_provider, ctor_ok)
       IN  last' = [NoOp EXCEPT !.op = "get_llm", !.arg = model_provider,
                                !.reply = IF r = Raised THEN None ELSE r,
                                !.raised = (r = Raised),
                                !.path = IF ctor_ok THEN "ctor_returns" ELSE "ctor_raises"]
    /\ UNCHANGED <<config, outbox, requests_post, store, calls, nchats, switched, threads>>

NextProvider ==
    \/ \E model_provider \in ProviderNames, ctor_ok \in BOOLEAN :
          GetLlm(model_provider, ctor_ok)
    \/ \E m \in ModelNames : SwitchModel("U1", m)
    \/ GetCurrentModelInfo("U1")

SpecProvider == Init /\ [][NextProvider]_vars

\* ---------------------------------------------------------------- SlackService requests

\* A call the adapter makes to the ChatAgent, and a Web API call it makes
AgentCall(op, conv, user, arg) == [op |-> op, conv |-> conv, user |-> user, arg |-> arg]
WebCall(method, channel, user, text, thread_ts) ==
    [method |-> method, channel |-> channel, user |-> user, text |-> text,
     thread_ts |-> thread_ts]

UsageMsg == "Usage: /model <name>. Supported: openai, gemini"
NotUnderstoodMsg == "Sorry, I didn't understand that command."

\* (mutant) no event is taken for the bot's own
from_bot_never(req) ==
    FALSE

\* line 60: the event was authored by a bot, or by this bot's user
from_bot(req) ==
    \/ req.bot_id # None
    \/ (BotId # None /\ req.bot_id = BotId)
    \/ req.user = BotUserId

\* (mutant) every message starts a conversation of its own
thread_of_own_ts(req) ==
    req.ts

\* line 75: conversation_thread_ts
thread_of(req) ==
    IF req.thread_ts # None THEN req.thread_ts ELSE req.ts

\* (mutant) a message in a thread is taken whether or not the conversation is known
should_process_any_thread(st, req) ==
    \/ req.event_type = "app_mention"
    \/ /\ req.event_type = "message"
       /\ req.subtype = None
       /\ (req.channel_type = "im" \/ req.thread_ts # None)

\* lines 78-95: should_process
should_process(st, req) ==
    LET conversation_id == conversation_id_of(req.channel, thread_of(req))
    IN  \/ req.event_type = "app_mention"
        \/ /\ req.event_type = "message"
           /\ req.subtype = None
           /\ \/ req.channel_type = "im"
              \/ (req.thread_ts # None /\ st.mem[conversation_id] # NoMemory)

\* lines 79-85: the text passed on, the mention of the bot removed from an app_mention
actual_text_to_agent(req) ==
    IF req.event_type = "app_mention"
    THEN strip(remove_mention(strip(req.text)))
    ELSE strip(req.text)

\* lines 97-119: chat is called and its answer posted in the thread
forward_to_chat(st, req, call) ==
    LET conversation_thread_ts == thread_of(req)
        conversation_id == conversation_id_of(req.channel, conversation_thread_ts)
        text == actual_text_to_agent(req)
    IN  { [st |-> r.st,
           fx |-> [req |-> req, acks |-> 1,
                   agent_calls |-> <<AgentCall("chat", conversation_id, req.user, text)>>,
                   posts |-> IF r.reply = "" THEN <<>>
                             ELSE <<WebCall("chat_postMessage", req.channel, None,
                                            r.reply, conversation_thread_ts)>>]] :
          r \in chat_outcomes(st, conversation_id, req.user, text, call) }

\* lines 122-151: a slash command
slash_command(st, req, acks) ==
    LET text_payload == lower(strip(req.text))
        ephemeral(response_text) ==
            <<WebCall("chat_postEphemeral", req.channel, req.user, response_text, None)>>
    IN  IF req.command = None \/ req.user = None \/ req.channel = None
        THEN { [st |-> st, fx |-> [NoEffects(req) EXCEPT !.acks = acks]] }
        ELSE IF req.command = "/model" /\ text_payload \in {"openai", "gemini"}
        THEN { [st |-> r.st,
                fx |-> [req |-> req, acks |-> acks,
                        agent_calls |-> <<AgentCall("switch_model", None, req.user,
                                                    text_payload)>>,
                        posts |-> ephemeral(r.reply)]] :
               r \in switch_model_outcomes(st, req.user, text_payload) }
        ELSE IF req.command = "/model"
        THEN { [st |-> st, fx |-> [NoEffects(req) EXCEPT !.acks = acks,
                                                        !.posts = ephemeral(UsageMsg)]] }
        ELSE IF req.command = "/currentmodel"
        THEN { [st |-> st,
                fx |-> [req |-> req, acks |-> acks,
                        agent_calls |-> <<AgentCall("get_current_model_info", None,
                                                    req.user, None)>>,
                        posts |-> ephemeral(InfoMsg)]] }
        ELSE { [st |-> st, fx |-> [NoEffects(req) EXCEPT !.acks = acks,
                                                        !.posts = ephemeral(NotUnderstoodMsg)]] }

\* process_slack_request: the outcomes of one request. The slash_commands and hello
\* branches (lines 122, 153) are elif branches of the chain that starts on line 97,
\* inside the events_api block.
process_slack_request(st, req, call) ==
    LET acked == { [st |-> st, fx |-> [NoEffects(req) EXCEPT !.acks = 1]] }
    IN  IF req.type = "events_api"
        THEN IF from_bot(req) THEN acked
             ELSE IF req.user = None \/ req.channel = None \/ req.ts = None THEN acked
             ELSE IF req.event_type = "message" /\ req.channel_type = None THEN acked
             ELSE IF should_process(st, req) /\ actual_text_to_agent(req) # ""
             THEN forward_to_chat(st, req, call)
             ELSE IF should_process(st, req) /\ actual_text_to_agent(req) = ""
             THEN acked
             ELSE IF req.type = "slash_commands"
             THEN slash_command(st, req, 2)
             ELSE acked
        ELSE { [st |-> st, fx |-> NoEffects(req)] }

\* An Events API request on channel D1
Event(event_type, user, text, channel_type, ts, thread_ts, bot_id, subtype) ==
    [type |-> "events_api", event_type |-> event_type, user |-> user, text |-> text,
     channel |-> "D1", channel_type |-> channel_type, ts |-> ts,
     thread_ts |-> thread_ts, bot_id |-> bot_id, subtype |-> subtype,
     command |-> None]

\* A slash command of U1 on channel D1
SlashCommand(command, text) ==
    [NoRequest EXCEPT !.type = "slash_commands", !.command = command, !.user = "U1",
                      !.channel = "D1", !.text = text]

\* The requests the transport delivers: messages and mentions of U1, in and out of
\* threads, with and without text; events the bot or another bot authored; edited
\* messages, events without a user, other event types; slash commands; hello
Requests ==
    { Event("message", "U1", text, channel_type, ts, thread_ts, None, None) :
        text \in {"hi", " "}, channel_type \in {"im", "channel", None},
        ts \in {"100", "200"}, thread_ts \in {None, "100"} }
    \cup
    { Event("app_mention", "U1", text, channel_type, ts, thread_ts, None, None) :
        text \in {"<@UBOT> hi", "<@UBOT>"}, channel_type \in {"channel", None},
        ts \in {"100", "200"}, thread_ts \in {None, "100"} }
    \cup
    { Event(event_type, author[1], "hi", "im", "200", thread_ts, author[2], None) :
        event_type \in {"message", "app_mention"},
        author \in {<<BotUserId, None>>, <<BotUserId, BotId>>, <<"U1", BotId>>,
                    <<"U1", "BOTHER">>},
        thread_ts \in {None, "100"} }
    \cup
    { Event("message", "U1", "hi", "im", "100", None, None, "message_changed"),
      Event("message", None, "hi", "im", "100", None, None, None),
      Event("reaction_added", "U1", "hi", "im", "100", None, None, None) }
    \cup
    { SlashCommand(command, text) :
        command \in {"/model", "/currentmodel", "/other"},
        text \in {"openai", "OpenAI", "gemini", "nonexistent"} }
    \cup
    { [NoRequest EXCEPT !.type = "hello"] }

HasCall(fx, op) ==
    Len(fx.agent_calls) > 0 /\ fx.agent_calls[1].op = op

\* One whole process_slack_request(client, req) call
ProcessSlackRequest(req) ==
    /\ \E r \in process_slack_request(Store, req, nchats + 1) :
         /\ HasCall(r.fx, "chat") => nchats < MaxChats
         /\ SetStore(r.st)
         /\ outbox' = r.fx
         /\ nchats' = IF HasCall(r.fx, "chat") THEN nchats + 1 ELSE nchats
         /\ calls' = IF HasCall(r.fx, "chat")
                     THEN [calls EXCEPT ![r.fx.agent_calls[1].conv] =
                                           Append(@, r.fx.agent_calls[1].arg)]
                     ELSE calls
         /\ switched' = IF HasCall(r.fx, "switch_model")
                           /\ r.fx.posts[1].text = SwitchedMsg
                        THEN [switched EXCEPT ![req.user] = r.fx.agent_calls[1].arg]
                        ELSE switched
    /\ UNCHANGED <<config, last, threads, requests_post>>

NextSlack ==
    \E req \in Requests : ProcessSlackRequest(req)

SpecSlack == Init /\ [][NextSlack]_vars

\* ---------------------------------------------------------------- web search calls

\* One call of the tool by a reasoning agent, with the arguments the model chose
TavilySearch(topic, search_depth, max_results, tavily_api_key, http) ==
    /\ LET r == tavily_search_function("q", topic, search_depth, max_results,
                                       tavily_api_key, http)
       IN  /\ requests_post' = r.payload
           /\ last' = [NoOp EXCEPT !.op = "tavily_search_function",
                                   !.arg = [query |-> "q", topic |-> topic,
                                            search_depth |-> search_depth,
                                            max_results |-> max_results],
                                   !.reply = r.result,
                                   !.raised = (r.result = <<Raised>>),
                                   !.path = http]
    /\ UNCHANGED <<config, store, outbox, calls, nchats, switched, threads>>

NextSearch ==
    \E topic \in {None, "general", "General", "news"},
       search_depth \in {None, "basic", "advanced"},
       max_results \in {NoMaxResults, 0, 3},
       tavily_api_key \in BOOLEAN,
       http \in HttpOutcomes :
        TavilySearch(topic, search_depth, max_results, tavily_api_key, http)

SpecSearch == Init /\ [][NextSearch]_vars

\* ---------------------------------------------------------------- health endpoint

\* The FastAPI applications: the service's (main.py) and the one the test builds
\* around the health router
Apps == {"main", "test_app_with_health_router"}
Paths == {"/health", "/"}

\* the routes of an application: main.py imports health_check but includes no router
routes(app) ==
    IF app = "test_app_with_health_router" THEN {"/health"} ELSE {}

\* health_check
health_check ==
    [status_code |-> 200,
     json |-> [status |-> "healthy",
               message |-> "Cipher Pol agent service is currently operational"]]

\* the framework's answer where no route matches
NotFound ==
    [status_code |-> 404, json |-> [detail |-> "Not Found"]]

\* One GET request on an application
HttpGet(app, path) ==
    /\ last' = [NoOp EXCEPT !.op = "GET", !.conv = app, !.arg = path,
                            !.reply = IF path \in routes(app) THEN health_check
                                      ELSE NotFound]
    /\ UNCHANGED <<config, store, outbox, requests_post, calls, nchats, switched, threads>>

\* The service answering HTTP requests next to the provider's and the users' calls
NextHealth ==
    \/ \E app \in Apps, path \in Paths : HttpGet(app, path)
    \/ NextProvider

SpecHealth == Init /\ [][NextHealth]_vars

\* ---------------------------------------------------------------- calls of two users
\* U1 in conversation D1_100 on thread T1 and U2 in conversation D1_200 on thread
\* T2, the chat calls interleaved step by step; a user switches models while no
\* call of that user is under way.

NextConcApart ==
    \/ ChatEnter("T1", "D1_100", "U1", "hi")
    \/ ChatEnter("T2", "D1_200", "U2", "hi")
    \/ \E t \in Threads :
          \/ ResolveAgent(t)
          \/ MemCheck(t)
          \/ MemCreate(t)
          \/ Construct(t)
          \/ PutUser(t)
          \/ PutApology(t)
          \/ AgentPutUser(t)
          \/ AgentAnswer(t)
          \/ ChatReturn(t)
    \/ \E u \in UserIds :
          /\ \A t \in Threads : threads[t].user # u
          /\ SwitchModel(u, "OpenAI")

SpecConcApart == Init /\ [][NextConcApart]_vars

\* ---------------------------------------------------------------- properties

\* The conversation's history: the turns of the buffer stored for it
history(st, c) ==
    IF st.mem[c] = NoMemory THEN <<>> ELSE st.heap[st.mem[c]]

IsPrefix(s, t) ==
    Len(s) <= Len(t) /\ \A i \in 1..Len(s) : s[i] = t[i]

\* No constructor outcome makes get_llm return a handle for the name
Unresolvable(m) ==
    \A ok \in BOOLEAN : get_llm(m, ok) = None

\* C1: whenever a handle is cached for a user, it is the handle get_llm makes for
\* the name stored as that user's preference.
C1_HandleMatchesPreference ==
    \A u \in UserIds :
        user_active_llm[u] # None =>
            /\ user_active_model_name[u] # None
            /\ user_active_llm[u] = get_llm(user_active_model_name[u], TRUE)

\* C2: switch_model to a name that cannot be resolved leaves the model that
\* get_current_model_info names unchanged, and leaves a user without a preference
\* entry without one.
C2_FailedSwitchKeepsModel ==
    [][\A u \in UserIds :
         (last'.op = "switch_model" /\ last'.user = u /\ Unresolvable(last'.arg)) =>
           /\ get_current_model_info(Store, u)' = get_current_model_info(Store, u)
           /\ (user_active_model_name[u] = None => user_active_model_name'[u] = None)]_vars

Delegated == last.op = "chat" /\ last.path \in {"agent_replied", "agent_raised"}

\* C3: after a confirmed switch_model(u, m), get_current_model_info(u) names m, and
\* a chat of u that obtains an agent uses the conversation's stored binding, whose
\* bound name is the m of u's last confirmed switch.
C3_SwitchAppliesToNextChat ==
    /\ (last.op = "switch_model" /\ last.reply = SwitchedMsg)
          => get_current_model_info(Store, last.user) = capitalize(last.arg)
    /\ (Delegated /\ switched[last.user] # None)
          => /\ conversation_agent_details[last.conv].name = switched[last.user]
             /\ conversation_agent_details[last.conv].agent = last.agent

\* a chat after a switch to OpenAI rebuilt a binding made under another name
C3_Witness ==
    /\ Delegated
    /\ last.binding = "rebuilt"
    /\ switched[last.user] = "OpenAI"

\* C4: after every chat call the conversation's history holds a user turn with the
\* call's text, put by that call.
C4_UserTextRecorded ==
    last.op = "chat" =>
        \E i \in 1..Len(history(Store, last.conv)) :
            history(Store, last.conv)[i] = ChatMessage(USER, last.arg, last.call)

\* C5: when no model can be resolved for the user, chat returns the systems-trouble
\* apology, and the history ends with the user's text followed by that apology.
C5_ResolutionFailureApology ==
    (last.op = "chat" /\ last.path = "llm_unavailable") =>
        LET h == history(Store, last.conv)
            n == Len(h)
        IN  /\ last.reply = SystemsTroubleMsg
            /\ ~last.raised
            /\ n >= 2
            /\ h[n - 1] = ChatMessage(USER, last.arg, last.call)
            /\ h[n] = ChatMessage(ASSISTANT, SystemsTroubleMsg, last.call)

\* resolution failed in a conversation that already has turns
C5_Witness ==
    /\ last.op = "chat"
    /\ last.path = "llm_unavailable"
    /\ Len(history(Store, last.conv)) > 2

\* C6: chat returns a string and never raises, whatever fails; a failure of the
\* agent's execution yields the processing-error apology.
C6_ChatNeverRaises ==
    last.op = "chat" =>
        /\ ~last.raised
        /\ last.reply \in {SystemsTroubleMsg, AgentErrorMsg, AgentReply}
        /\ (last.path = "agent_raised" => last.reply = AgentErrorMsg)
        /\ (last.path \in {"llm_unavailable", "agent_construction_failed"}
               => last.reply = SystemsTroubleMsg)

\* the agent raised in a conversation where an earlier call found no agent
C6_Witness ==
    /\ last.op = "chat"
    /\ last.path = "agent_raised"
    /\ \E i \in 1..Len(history(Store, last.conv)) :
          history(Store, last.conv)[i].content = SystemsTroubleMsg

IsUserTurn(t) == t.role = USER
IsAssistantTurn(t) == t.role = ASSISTANT

\* C7: the user turns of a conversation's history are the texts of its chat calls,
\* in call order, and there are no more assistant turns than calls.
C7_TurnsMatchCalls ==
    \A c \in ConversationIds :
        LET h == history(Store, c)
            user_turns == SelectSeq(h, IsUserTurn)
        IN  /\ Len(user_turns) = Len(calls[c])
            /\ \A i \in 1..Len(user_turns) : user_turns[i].content = calls[c][i]
            /\ Len(SelectSeq(h, IsAssistantTurn)) <= Len(calls[c])

\* C8: a chat that rebuilds the conversation's agent under another name constructs
\* it over the buffer already stored for the conversation, and the turns that
\* buffer held are still there, in order.
C8_RebuildKeepsHistory ==
    [][(last'.op = "chat" /\ last'.binding = "rebuilt") =>
         \E c \in ConversationIds :
            /\ c = last'.conv
            /\ conversation_memory[c] # NoMemory
            /\ conversation_memory'[c] = conversation_memory[c]
            /\ last'.agent.mem = conversation_memory[c]
            /\ conversation_agent_details'[c].agent = last'.agent
            /\ IsPrefix(memories[conversation_memory[c]],
                        memories'[conversation_memory[c]])]_vars

\* the agent was rebuilt over a buffer that holds turns of an earlier call
C8_Witness ==
    /\ last.op = "chat"
    /\ last.binding = "rebuilt"
    /\ \E i \in 1..Len(history(Store, last.conv)) :
          history(Store, last.conv)[i].call < last.call

\* C9: the agent chat delegates to is the one stored for the conversation, and its
\* bound name is the calling user's current preference.
C9_DelegateUsesBoundAgent ==
    Delegated =>
        /\ conversation_agent_details[last.conv].agent = last.agent
        /\ conversation_agent_details[last.conv].name
              = preferred_name(Store, last.user)

\* U2, who never switched, posts where U1 posted under another preference: the
\* binding U1's call made is rebuilt under U2's
C9_Witness ==
    /\ Delegated
    /\ last.user = "U2"
    /\ last.binding = "rebuilt"
    /\ switched["U2"] = None
    /\ Len(calls[last.conv]) >= 2
    /\ preferred_name(Store, "U1") # preferred_name(Store, "U2")

\* C10: concurrent chat calls on one conversation leave its history made of whole
\* calls: the turns one call put are next to each other, its user turn first.
C10_TurnsOfACallAdjacent ==
    \A c \in ConversationIds :
        LET h == history(Store, c)
        IN  \A i, j \in 1..Len(h) :
                (i < j /\ h[i].call = h[j].call) =>
                    /\ j = i + 1
                    /\ h[i].role = USER
                    /\ h[j].role = ASSISTANT

\* C11: the name a switch_model call writes tentatively is not read by a concurrent
\* call for the same user when that switch ends in rollback.
C11_TentativeNeverObserved ==
    \A t \in Threads :
        (threads[t].pc = "switch_finish" /\ ~SwitchConfirmed(t)) => ~threads[t].leaked

\* C12: a user without a confirmed switch_model is named the default model by
\* get_current_model_info in every state, and the model it names for a user changes
\* in no chat call and in no call made for another user.
C12_PreferenceOnlyByOwnSwitch ==
    [][\A u \in UserIds :
         /\ (switched'[u] = None =>
                get_current_model_info(Store, u)' = capitalize(default_model_name))
         /\ (last'.op = "chat" \/ last'.user # u) =>
                get_current_model_info(Store, u)' = get_current_model_info(Store, u)]_vars

\* U2 never switched and has an entry cached by a chat call, U1 switched to OpenAI,
\* and get_current_model_info was asked for U2
C12_Witness ==
    /\ last.op = "get_current_model_info"
    /\ last.user = "U2"
    /\ switched["U2"] = None
    /\ user_active_model_name["U2"] # None
    /\ switched["U1"] = "OpenAI"
    /\ last.model = capitalize(default_model_name)

\* C13: switch_model, confirmed or not, changes no conversation's binding, buffer
\* entry or turns; a binding changes only in a chat call on its conversation, and
\* then carries the calling user's preference.
C13_SwitchKeepsBindings ==
    [][/\ last'.op = "switch_model" =>
             UNCHANGED <<conversation_agent_details, conversation_memory, memories>>
       /\ \A c \in ConversationIds :
             conversation_agent_details'[c] # conversation_agent_details[c] =>
                /\ last'.op = "chat"
                /\ last'.conv = c
                /\ \E u \in UserIds :
                      /\ u = last'.user
                      /\ conversation_agent_details'[c].name
                            = user_active_model_name'[u]]_vars

\* a confirmed switch to OpenAI while the conversation is bound under gemini
C13_Witness ==
    /\ last.op = "switch_model"
    /\ last.reply = SwitchedMsg
    /\ last.arg = "OpenAI"
    /\ conversation_agent_details["D1_100"] # NoDetails
    /\ conversation_agent_details["D1_100"].name = "gemini"
    /\ Len(history(Store, "D1_100")) > 0

\* the second _get_llm_for_user call of switch_model returned no handle although
\* the name it was to load is not the default: that name and the default both failed
BothFailed(t) ==
    /\ threads[t].pc = "switch_finish"
    /\ threads[t].llm = None
    /\ threads[t].model_name # default_model_name

\* C14 (as claimed): when the desired model and the default both fail to resolve,
\* _get_llm_for_user returns no handle together with the desired model's name.
C14_BothFailNamesDesired ==
    \A t \in Threads : BothFailed(t) => threads[t].name = threads[t].model_name

\* C14 (amended): when the desired model and the default both fail to resolve,
\* _get_llm_for_user returns no handle together with the default model's name,
\* and caches nothing for the user.
C14_BothFailNamesDefault ==
    \A t \in Threads :
        BothFailed(t) =>
            /\ threads[t].name = default_model_name
            /\ user_active_llm[threads[t].user] = None
            /\ user_active_model_name[threads[t].user] = threads[t].model_name

\* OpenAI was wanted, and neither it nor gemini could be loaded
C14_Witness ==
    /\ BothFailed("T1")
    /\ threads["T1"].model_name = "OpenAI"
    /\ threads["T1"].name = "gemini"

\* C15: get_llm never raises. It returns None when the name, in any spelling, is
\* neither openai nor gemini, when that backend's credential was not set when the
\* provider was constructed, or when the backend's constructor raises; otherwise it
\* returns that backend's handle.
C15_GetLlmNeverRaises ==
    last.op = "get_llm" =>
        LET is_openai == last.arg \in {"openai", "OpenAI", "OPENAI"}
            is_gemini == last.arg \in {"gemini", "Gemini", "GEMINI"}
            no_handle == \/ ~is_openai /\ ~is_gemini
                         \/ is_openai /\ ~openai_api_key
                         \/ is_gemini /\ ~google_application_credentials
                         \/ last.path = "ctor_raises"
        IN  /\ ~last.raised
            /\ no_handle => last.reply = None
            /\ (~no_handle /\ is_openai) => last.reply = OpenAI
            /\ (~no_handle /\ is_gemini) => last.reply = Gemini

\* the credential is there and the constructor raised, for a name not in lower case
C15_Witness ==
    /\ last.op = "get_llm"
    /\ last.arg = "OPENAI"
    /\ openai_api_key
    /\ last.path = "ctor_raises"
    /\ last.reply = None

\* C16: a slash_commands request with command /model and a supported model name is
\* acknowledged and leads to exactly one switch_model(user, name) call and one
\* ephemeral reply to that user; a /currentmodel command leads likewise to one
\* get_current_model_info(user) call.
C16_SlashCommandsHandled ==
    LET req == outbox.req
    IN  /\ (req.type = "slash_commands" /\ req.command = "/model"
                /\ lower(strip(req.text)) \in {"openai", "gemini"}) =>
               /\ outbox.acks = 1
               /\ outbox.agent_calls =
                     <<AgentCall("switch_model", None, req.user, lower(strip(req.text)))>>
               /\ Len(outbox.posts) = 1
               /\ outbox.posts[1].method = "chat_postEphemeral"
               /\ outbox.posts[1].user = req.user
        /\ (req.type = "slash_commands" /\ req.command = "/currentmodel") =>
               /\ outbox.acks = 1
               /\ outbox.agent_calls =
                     <<AgentCall("get_current_model_info", None, req.user, None)>>
               /\ Len(outbox.posts) = 1
               /\ outbox.posts[1].method = "chat_postEphemeral"

\* C17: an event authored by the bot itself (it carries a bot_id, or its user is
\* the bot's user id) leads to no chat call and to no posted message.
C17_OwnEventsIgnored ==
    LET req == outbox.req
    IN  (req.type = "events_api" /\ (req.bot_id # None \/ req.user = BotUserId)) =>
            /\ outbox.agent_calls = <<>>
            /\ outbox.posts = <<>>

\* the bot's own reply in a direct-message thread that has a history: without the
\* filter it would be forwarded
C17_Witness ==
    /\ outbox.req.type = "events_api"
    /\ outbox.req.event_type = "message"
    /\ outbox.req.channel_type = "im"
    /\ outbox.req.user = BotUserId
    /\ outbox.req.thread_ts = "100"
    /\ outbox.acks = 1
    /\ Len(history(Store, "D1_100")) >= 2

\* C18: for every event passed on, chat is called with the conversation id made of
\* the channel id, "_" and t, where t is the event's thread_ts if it has one and
\* its own ts otherwise, and the reply is posted to the same channel with
\* thread_ts = t.
C18_ConversationIdFromThread ==
    HasCall(outbox, "chat") =>
        LET req == outbox.req
            t == IF req.thread_ts # None THEN req.thread_ts ELSE req.ts
            call == outbox.agent_calls[1]
        IN  /\ Len(outbox.agent_calls) = 1
            /\ (req.channel = "D1" /\ t = "100") => call.conv = "D1_100"
            /\ (req.channel = "D1" /\ t = "200") => call.conv = "D1_200"
            /\ call.user = req.user
            /\ Len(outbox.posts) = 1
            /\ outbox.posts[1].method = "chat_postMessage"
            /\ outbox.posts[1].channel = req.channel
            /\ outbox.posts[1].thread_ts = t

\* a follow-up (ts 200) in the thread of the message with ts 100, which had reached
\* chat before: both are calls of conversation D1_100
C18_Witness ==
    /\ HasCall(outbox, "chat")
    /\ outbox.req.ts = "200"
    /\ outbox.req.thread_ts = "100"
    /\ outbox.agent_calls[1].conv = "D1_100"
    /\ Len(calls["D1_100"]) = 2
    /\ Len(calls["D1_200"]) = 0

\* C19: get_current_model_info(u) changes none of user_active_llm,
\* user_active_model_name, conversation_memory and conversation_agent_details, and
\* its reply names user_active_model_name[u] when u has an entry and the default
\* model otherwise.
C19_InfoIsPureQuery ==
    [][\A u \in UserIds :
         (last'.op = "get_current_model_info" /\ last'.user = u) =>
            /\ UNCHANGED <<user_active_llm, user_active_model_name,
                           conversation_memory, conversation_agent_details>>
            /\ last'.reply = InfoMsg
            /\ last'.model = capitalize(IF user_active_model_name[u] # None
                                        THEN user_active_model_name[u]
                                        ELSE default_model_name)]_vars

\* asked for U2, whose entry is OpenAI while U1 has none
C19_Witness ==
    /\ last.op = "get_current_model_info"
    /\ last.user = "U2"
    /\ user_active_model_name["U2"] = "OpenAI"
    /\ user_active_model_name["U1"] = None
    /\ last.model = "Openai"

Requested == last.op = "tavily_search_function" /\ requests_post.sent

C22_HealthBody ==
    (last.op = "GET" /\ last.arg = "/health" /\ last.arg \in routes(last.conv)) =>
        /\ last.reply.status_code = 200
        /\ last.reply.json = [status |-> "healthy",
                              message |-> "Service is up and running!"]

\* C23: a chat call in which the construction of the agent fails leaves every
\* conversation's binding as it was, also when the stored binding is under another
\* name than the user's preference; a binding changes only in a call that
\* constructed the new agent, and then holds that agent.
C23_FailedRebuildKeepsBinding ==
    [][last'.op = "chat" =>
         /\ last'.path = "agent_construction_failed" =>
               conversation_agent_details' = conversation_agent_details
         /\ \A c \in ConversationIds :
               conversation_agent_details'[c] # conversation_agent_details[c] =>
                  /\ c = last'.conv
                  /\ last'.binding \in {"created", "rebuilt"}
                  /\ conversation_agent_details'[c].agent = last'.agent]_vars

\* the construction failed where the stored binding is under another name than the
\* user's preference
C23_Witness ==
    /\ last.op = "chat"
    /\ last.path = "agent_construction_failed"
    /\ conversation_agent_details[last.conv] # NoDetails
    /\ conversation_agent_details[last.conv].name # preferred_name(Store, last.user)

\* the second _get_llm_for_user call of switch_model returned a handle under
\* another name than the one it was to load: that model failed, the default loaded
FellBack(t) ==
    /\ threads[t].pc = "switch_finish"
    /\ threads[t].llm # None
    /\ threads[t].name # threads[t].model_name

\* C24: when the desired model fails to resolve, is not the default, and the
\* default resolves, _get_llm_for_user returns the default's handle with the
\* default's name and caches both for the user.
C24_FallbackCachesDefault ==
    \A t \in Threads :
        FellBack(t) =>
            /\ threads[t].model_name # default_model_name
            /\ threads[t].name = default_model_name
            /\ threads[t].llm = get_llm(default_model_name, TRUE)
            /\ user_active_llm[threads[t].user] = threads[t].llm
            /\ user_active_model_name[threads[t].user] = default_model_name

\* OpenAI was wanted and could have been loaded, its constructor raised, gemini loaded
C24_Witness ==
    /\ FellBack("T1")
    /\ threads["T1"].model_name = "OpenAI"
    /\ openai_api_key
    /\ threads["T1"].llm = Gemini
    /\ user_active_model_name["U1"] = "gemini"

\* thread t is inside a chat call before or after the step
InChat(t) ==
    threads[t].pc \notin {"idle"} \/ threads'[t].pc \notin {"idle"}

\* C25: a step of chat(conv, u, text) changes, of the state of the ChatAgent, only
\* conv's buffer entry, turns and binding and u's cached handle and preference
\* entry; the entries of every other conversation and user are the same after the
\* step as before, whatever calls for other conversations and users are under way.
C25_ChatFrame ==
    [][\A t \in Threads :
         (threads'[t] # threads[t] /\ InChat(t)) =>
            LET conv == IF threads[t].pc = "idle" THEN threads'[t].conv ELSE threads[t].conv
                u == IF threads[t].pc = "idle" THEN threads'[t].user ELSE threads[t].user
            IN  /\ \A c \in ConversationIds \ {conv} :
                      /\ conversation_memory'[c] = conversation_memory[c]
                      /\ conversation_agent_details'[c] = conversation_agent_details[c]
                      /\ history(Store, c)' = history(Store, c)
                /\ \A v \in UserIds \ {u} :
                      /\ user_active_llm'[v] = user_active_llm[v]
                      /\ user_active_model_name'[v] = user_active_model_name[v]]_vars

\* both calls are under way, each has bound an agent to its conversation, the two
\* under different names
C25_Witness ==
    /\ threads["T1"].pc = "agent_answer"
    /\ threads["T2"].pc = "agent_answer"
    /\ conversation_agent_details["D1_100"] # NoDetails
    /\ conversation_agent_details["D1_200"] # NoDetails
    /\ conversation_agent_details["D1_100"].name # conversation_agent_details["D1_200"].name

\* thread t is at line 102 and the second _get_llm_for_user call will load, that
\* is call get_llm with the requested model's name
LoadsRequested(t) ==
    /\ threads[t].pc = "switch_second"
    /\ preferred_name(Store, threads[t].user) = threads[t].model_name
    /\ needs_load(Store, threads[t].user, threads[t].model_name)

C27_HandleIffName ==
    \A u \in UserIds :
        (user_active_llm[u] # None) <=> (user_active_model_name[u] # None)

\* U1's switch has just been refused, leaving U1 without either entry, while U2
\* has both
C27_Witness ==
    /\ last.op = "switch_model"
    /\ last.user = "U1"
    /\ last.reply = StayingMsg
    /\ user_active_llm["U1"] = None
    /\ user_active_model_name["U1"] = None
    /\ user_active_llm["U2"] # None
    /\ user_active_model_name["U2"] # None

\* C28: in every reachable state, concurrent first chat calls on a conversation
\* included, the agent bound to a conversation was constructed over the buffer
\* stored for that conversation, and no more buffers were ever created than there
\* are conversations with a buffer (one each, never replaced).
C28_OneHistoryPerConversation ==
    /\ \A c \in ConversationIds :
          conversation_agent_details[c] # NoDetails =>
              conversation_agent_details[c].agent.mem = conversation_memory[c]
    /\ Len(memories) = Cardinality({c \in ConversationIds : conversation_memory[c] # NoMemory})

\* the backend of u's preference can be resolved in this state
Resolvable(u) ==
    \E ok \in BOOLEAN : get_llm(preferred_name(Store, u), ok) # None

\* whenever the backend of u's preference resolves, a chat by u in conversation c
\* gets past the resolution, and with the agent constructed and answering it
\* returns the agent's answer
Retried(c, u) ==
    \A ok1 \in BOOLEAN, ok2 \in BOOLEAN, ctor_ok \in BOOLEAN, exec \in Execs :
        LET r == chat(Store, c, u, "hi", ok1, ok2, ctor_ok, exec, nchats + 1)
        IN  get_llm(preferred_name(Store, u), ok1) # None =>
                /\ r.path # "llm_unavailable"
                /\ (ctor_ok /\ exec = "reply") =>
                      /\ r.agent # NoAgent
                      /\ r.path = "agent_replied"
                      /\ r.reply = AgentReply

\* C29: a chat call whose model resolution fails leaves the user's cached handle
\* and preference name as they were, and after it a chat by that user in that
\* conversation obtains an agent and returns its answer whenever the backend
\* resolves: the failure is not remembered.
C29_FailedResolutionNotRemembered ==
    [][\A u \in UserIds, c \in ConversationIds :
         (/\ nchats' = nchats + 1
          /\ last'.op = "chat" /\ last'.user = u /\ last'.conv = c
          /\ last'.path = "llm_unavailable") =>
            /\ user_active_llm'[u] = user_active_llm[u]
            /\ user_active_model_name'[u] = user_active_model_name[u]
            /\ Resolvable(u)' => Retried(c, u)']_vars

\* a chat has just failed to resolve the model although the credentials of the
\* user's backend are there, and another call can follow
C29_Witness ==
    /\ last.op = "chat"
    /\ last.path = "llm_unavailable"
    /\ last.reply = SystemsTroubleMsg
    /\ Resolvable(last.user)
    /\ nchats < MaxChats

\* the event gets past the checks of lines 60-72: no bot wrote it, it has a user,
\* a channel and a timestamp, and a message event has a channel type
Accepted(req) ==
    /\ req.type = "events_api"
    /\ req.bot_id = None /\ req.user # BotUserId
    /\ req.user # None /\ req.channel # None /\ req.ts # None
    /\ (req.event_type = "message" => req.channel_type # None)

\* the texts of the requests that are empty once stripped and cleared of the mention
EmptyWhenCleaned(req) ==
    req.text \in {"", " ", "<@UBOT>", "<@UBOT> ", " <@UBOT>"}

\* C30: of the events accepted, a plain message outside a direct-message channel is
\* passed to chat only if it has a thread_ts and its conversation had a history
\* entry before the request, which an earlier call of chat for that conversation
\* created; a plain direct message and an app mention are passed to chat whenever
\* their cleaned text is not empty; an event whose cleaned text is empty is not.
C30_ForwardingRule ==
    [][LET req == outbox'.req
           forwarded == HasCall(outbox', "chat")
           plain == req.event_type = "message" /\ req.subtype = None
           conv == IF req.thread_ts = "100" \/ (req.thread_ts = None /\ req.ts = "100")
                   THEN "D1_100" ELSE "D1_200"
       IN  Accepted(req) =>
             /\ (plain /\ req.channel_type # "im" /\ forwarded) =>
                   /\ req.thread_ts # None
                   /\ conversation_memory[conv] # NoMemory
                   /\ Len(calls[conv]) > 0
             /\ ((plain /\ req.channel_type = "im") \/ req.event_type = "app_mention")
                   => (forwarded <=> ~EmptyWhenCleaned(req))
             /\ EmptyWhenCleaned(req) => ~forwarded]_vars

\* a plain message in a channel thread has been passed to chat, the thread's
\* conversation having been started by an earlier request
C30_Witness ==
    /\ HasCall(outbox, "chat")
    /\ outbox.req.event_type = "message"
    /\ outbox.req.subtype = None
    /\ outbox.req.channel_type = "channel"
    /\ outbox.req.thread_ts = "100"
    /\ Len(calls["D1_100"]) = 2

====
